---- MODULE Spec2Model ----
(***************************************************************************)
(* Verification model of the document question-answering backend:          *)
(*   - the chunker          functions/chunk_text/chunk_text.py             *)
(*   - the corpus store     models/*.py, routers/api.py                    *)
(*   - retrieval            routers/ask.py                                 *)
(* Texts are sequences of one-character strings, so that splitting,        *)
(* joining and character lengths are computed and not assumed.             *)
(***************************************************************************)
EXTENDS Integers, Sequences, FiniteSets, TLC

VARIABLES
    \* chunk_document_text applied to one input
    text, chunk_size, chunks, cpc,
    \* the database: users, api_list, documents, embeddings and their serials
    users, api_list, documents, embeddings,
    next_api_id, next_document_id, next_embedding_id, next_key,
    \* the add_document request in flight, between its commits
    upload,
    \* the response of the handler that finished in the last step
    response,
    \* history: the number of chunks the chunker produced for each
    \* document id
    doc_chunks,
    \* one chat turn (routers/chat.py): the locals of chat and
    \* stream_response, the client's connection and what was yielded to it,
    \* and the tasks added to background_tasks
    chat, client, background_tasks,
    \* routers/auth.py: the users table as register and login see it, the
    \* dictionary CURRENT_OTPS, the time in minutes and, as history, the
    \* handler that issued the OTP stored for each email
    user_table, CURRENT_OTPS, now, issued_by,
    \* routers/payment_gateway.py: the column pending_transaction and the
    \* credit columns of each user, and the checkout sessions created at
    \* the payment provider
    pending_transaction, credits, sessions

chunkVars == <<text, chunk_size, chunks, cpc>>
dbVars == <<users, api_list, documents, embeddings,
            next_api_id, next_document_id, next_embedding_id, next_key>>
reqVars == <<upload, response, doc_chunks>>
chatVars == <<chat, client, background_tasks>>
authVars == <<user_table, CURRENT_OTPS, now, issued_by>>
payVars == <<pending_transaction, credits, sessions>>
vars == <<text, chunk_size, chunks, cpc, users, api_list, documents,
          embeddings, next_api_id, next_document_id, next_embedding_id,
          next_key, upload, response, doc_chunks,
          chat, client, background_tasks,
          user_table, CURRENT_OTPS, now, issued_by,
          pending_transaction, credits, sessions>>

(***************************************************************************)
(* Bounds of the model                                                     *)
(***************************************************************************)
MaxTextLen == 5
MaxChunkSize == 4
NumUsers == 2
MaxApiIds == 2
MaxDocIds == 2
MaxFragments == 3
MaxKeyRows == 4
MaxTime == 3
MaxSessions == 3

(***************************************************************************)
(* Texts                                                                   *)
(***************************************************************************)
Whitespace == {" ", "\n"}
Letters == {"a", "b"}
Alphabet == Letters \cup Whitespace

IsSpace(c) == c \in Whitespace

\* The text of end-to-end scenario A, "alpha beta gamma delta".
ScenarioAText ==
    <<"a","l","p","h","a"," ","b","e","t","a"," ",
      "g","a","m","m","a"," ","d","e","l","t","a">>

BoundedTexts == UNION {[1..n -> Alphabet] : n \in 0..MaxTextLen}

Texts == BoundedTexts \cup {ScenarioAText}

ChunkSizes == (1..MaxChunkSize) \cup {10}

(***************************************************************************)
(* str.split() and " ".join()                                              *)
(***************************************************************************)
\* The k-th smallest element of a finite set of integers.
Kth(T, k) == CHOOSE i \in T : Cardinality({j \in T : j < i}) = k - 1

\* text.split(): the maximal runs of non-whitespace characters, in order.
split(t) ==
    LET n == Len(t)
        S == {i \in 1..n : ~IsSpace(t[i]) /\ (i = 1 \/ IsSpace(t[i-1]))}
        E == {i \in 1..n : ~IsSpace(t[i]) /\ (i = n \/ IsSpace(t[i+1]))}
    IN  [k \in 1..Cardinality(S) |-> SubSeq(t, Kth(S, k), Kth(E, k))]

\* " ".join(words)
RECURSIVE join(_)
join(words) ==
    IF words = <<>> THEN <<>>
    ELSE IF Len(words) = 1 THEN words[1]
    ELSE words[1] \o <<" ">> \o join(Tail(words))

(***************************************************************************)
(* chunk_document_text                                                     *)
(***************************************************************************)
DefaultChunkSize == 200

\* line 10: the result for an empty text
EmptyResult_Echo(t) == <<t>>
EmptyResult(t) == <<>>

\* line 20: would adding the word exceed the chunk size?
Exceeds_NoSep(current_length, word, size) ==
    current_length + Len(word) > size
Exceeds(current_length, word, size) ==
    current_length + Len(word) + 1 > size

\* line 26: the length after adding the word and its separator
NextLength_NoSpace(current_length, word) == current_length + Len(word)
NextLength(current_length, word) == current_length + Len(word) + 1

\* lines 29-30: append the last chunk if it exists
LastChunk_Dropped(chunks_, current_chunk) == chunks_
LastChunk(chunks_, current_chunk) ==
    IF current_chunk # <<>> THEN Append(chunks_, join(current_chunk))
    ELSE chunks_

\* lines 18-26: the loop over the words, from word i on
RECURSIVE ChunkLoop(_, _, _, _, _, _)
ChunkLoop(words, i, chunks_, current_chunk, current_length, size) ==
    IF i > Len(words) THEN <<chunks_, current_chunk>>
    ELSE IF Exceeds(current_length, words[i], size)
    THEN ChunkLoop(words, i + 1, Append(chunks_, join(current_chunk)),
                   Append(<<>>, words[i]), NextLength(0, words[i]), size)
    ELSE ChunkLoop(words, i + 1, chunks_, Append(current_chunk, words[i]),
                   NextLength(current_length, words[i]), size)

chunk_document_text(t, size) ==
    IF t = <<>> THEN EmptyResult(t)
    ELSE LET r == ChunkLoop(split(t), 1, <<>>, <<>>, 0, size)
         IN  LastChunk(r[1], r[2])

(***************************************************************************)
(* The database.  A table is the sequence of its rows in insertion order   *)
(* (ascending primary key); a row carries the columns the handlers read    *)
(* and write.  None is SQL NULL / Python None.                             *)
(***************************************************************************)
None == <<"None">>

Users == 1..NumUsers

\* Does the sequence of rows contain a row satisfying Test?
Exists(rows, Test(_)) == \E k \in 1..Len(rows) : Test(rows[k])

\* Query.count()
Count(rows, Test(_)) == Len(SelectSeq(rows, Test))

\* The items of a sequence mapped by F.
MapSeq(s_, F(_)) == [k \in 1..Len(s_) |-> F(s_[k])]

Min2(x, y) == IF x <= y THEN x ELSE y

(***************************************************************************)
(* SentenceTransformer.encode, ndarray.tobytes and numpy.frombuffer        *)
(***************************************************************************)
\* The letter counted by each coordinate of an embedding.
CoordLetter == <<"a", "b">>

\* model.encode(chunk): a fixed function of the chunk's text with a fixed
\* number of coordinates (here the number of occurrences of each letter).
encode(chunk) ==
    [k \in 1..Len(CoordLetter) |->
        Cardinality({i \in 1..Len(chunk) : chunk[i] = CoordLetter[k]})]

\* The four little-endian bytes of one float32 coordinate.
Float32Bytes(v) == <<v % 256, (v \div 256) % 256, 0, 0>>

RECURSIVE tobytes(_)
tobytes(vec) ==
    IF vec = <<>> THEN <<>> ELSE Float32Bytes(vec[1]) \o tobytes(Tail(vec))

\* np.frombuffer(buffer, dtype=np.float32); "ValueError" when the buffer
\* size is not a multiple of the element size.
frombuffer(bytes) ==
    IF Len(bytes) % 4 # 0 THEN "ValueError"
    ELSE [k \in 1..(Len(bytes) \div 4) |->
            bytes[4 * k - 3] + 256 * bytes[4 * k - 2]]

RECURSIVE SumSq(_, _, _)
SumSq(x, y, k) ==
    IF k = 0 THEN 0 ELSE (x[k] - y[k]) * (x[k] - y[k]) + SumSq(x, y, k - 1)

\* The (squared) L2 distance IndexFlatL2 ranks by.
L2(x, y) == SumSq(x, y, Len(x))

(***************************************************************************)
(* ORM lookups and cascades                                                *)
(***************************************************************************)
\* APIList.get_by_api_key: the rows with this key (at most one, unique).
get_by_api_key(api_key) ==
    SelectSeq(api_list, LAMBDA a : a.api_key = api_key)

\* db.query(APIList).filter(api_key == .., main_table_user_id == ..)
OwnedApi(api_key, user_id) ==
    SelectSeq(api_list, LAMBDA a : a.api_key = api_key
                                   /\ a.main_table_user_id = user_id)

DocumentsOfApi(api_id) ==
    SelectSeq(documents, LAMBDA d : d.api_id = api_id)

EmbeddingsOfDocument(document_id) ==
    SelectSeq(embeddings, LAMBDA e : e.document_id = document_id)

\* db.delete(document): Documents.embeddings has cascade "all,
\* delete-orphan", so the document's embedding rows go with it.
EmbeddingsAfterDocumentDelete_Kept(document_id) == embeddings
EmbeddingsAfterDocumentDelete(document_id) ==
    SelectSeq(embeddings, LAMBDA e : e.document_id # document_id)

\* db.delete(document); db.commit(): the Documents row itself.
DocumentsAfterDocumentDelete_Kept(document_id) == documents
DocumentsAfterDocumentDelete(document_id) ==
    SelectSeq(documents, LAMBDA d : d.document_id # document_id)

\* db.delete(api_entry): APIList.documents has cascade "all,
\* delete-orphan", and each deleted document cascades to its embeddings.
DocumentsAfterApiDelete(api_id) ==
    SelectSeq(documents, LAMBDA d : d.api_id # api_id)

EmbeddingsAfterApiDelete(api_id) ==
    SelectSeq(embeddings,
              LAMBDA e : ~Exists(DocumentsOfApi(api_id),
                                 LAMBDA d : d.document_id = e.document_id))

(***************************************************************************)
(* Responses                                                               *)
(***************************************************************************)
NoResponse == [op |-> "none"]

\* raise HTTPException(status_code, detail) / a returned body
Reply(op, status, detail) == [op |-> op, status |-> status, detail |-> detail]

(***************************************************************************)
(* routers/api.py                                                          *)
(***************************************************************************)
MAX_API_KEYS == 3
batch_size == 32

AllowedTypes ==
    {"application/pdf",
     "application/vnd.openxmlformats-officedocument.wordprocessingml.document",
     "text/plain"}

\* The uploads tried: content type and the text the extractor returns.
UploadTexts == {<<>>, <<" ">>, <<"a">>, <<"b">>}
Files ==
    [content_type : {"text/plain"}, extracted : UploadTexts]
    \cup {[content_type |-> "image/png", extracted |-> <<"a">>]}

\* generate_api_key(): the keys that can be issued, each at most once; one
\* more than the rows that can be created, so that a key can be replaced.
MaxKeys == MaxApiIds + 1

\* The keys tried: 0 is never issued.
KeyInputs == 0..MaxKeys

Idle == [pc |-> "idle"]

\* line 89: has the user reached the maximum number of keys?
AtKeyLimit_Above(existing_api_keys) == existing_api_keys > MAX_API_KEYS
AtKeyLimit(existing_api_keys) == existing_api_keys >= MAX_API_KEYS

\* The body of a generate_api request.
GenApiRequest == [label |-> "l", tl |-> 1, instructions |-> "i"]

\* generate_api, with at most max_api_ids rows ever created and max_keys
\* keys ever issued.  The rows carry the columns api.py reads and writes;
\* the class in models/api_list.py declares of them only id,
\* main_table_user_id, api_key and instructions.  No token has been used
\* on a new key.
GenerateApiWithin(u, max_api_ids, max_keys) ==
    /\ next_api_id <= max_api_ids
    /\ next_key <= max_keys
    /\ IF ~users[u].is_verified
       THEN /\ response' = Reply("generate_api", 403,
                  "User account is not verified. Please verify your account first.")
            /\ UNCHANGED <<api_list, next_api_id, next_key>>
       ELSE IF AtKeyLimit(Count(api_list,
                                LAMBDA a : a.main_table_user_id = u))
       THEN /\ response' = Reply("generate_api", 400,
                  "Maximum API key limit reached.")
            /\ UNCHANGED <<api_list, next_api_id, next_key>>
       ELSE /\ api_list' = Append(api_list,
                  [id |-> next_api_id, main_table_user_id |-> u,
                   api_key |-> next_key,
                   instructions |-> GenApiRequest.instructions,
                   token_limit_per_day |-> GenApiRequest.tl,
                   tokens_used |-> 0,
                   tokens_remaining |-> GenApiRequest.tl])
            /\ next_api_id' = next_api_id + 1
            /\ next_key' = next_key + 1
            /\ response' = [op |-> "generate_api", status |-> 200,
                            detail |-> "", api_key |-> next_key]
    /\ UNCHANGED <<users, documents, embeddings, next_document_id,
                   next_embedding_id, upload, doc_chunks>>
    /\ UNCHANGED chunkVars
    /\ UNCHANGED chatVars
    /\ UNCHANGED authVars
    /\ UNCHANGED payVars

\* generate_api
GenerateApi(u) == GenerateApiWithin(u, MaxApiIds, MaxKeys)

\* generate_api when creating or committing the row raises: the handler
\* rolls back and answers 500.  APIList(label=..., token_limit_per_day=...)
\* raises for the class of models/api_list.py, which declares neither.
GenerateApiFails(u) ==
    /\ users[u].is_verified
    /\ ~AtKeyLimit(Count(api_list, LAMBDA a : a.main_table_user_id = u))
    /\ response' = Reply("generate_api", 500, "Failed to create API key")
    /\ UNCHANGED dbVars
    /\ UNCHANGED <<upload, doc_chunks>>
    /\ UNCHANGED chunkVars
    /\ UNCHANGED chatVars
    /\ UNCHANGED authVars
    /\ UNCHANGED payVars

\* An upload long enough for two batches: batch_size + 1 words, each half
\* the default chunk size long, so that every word is a chunk of its own;
\* neighbouring words differ.
LongWord(c) == [i \in 1..(DefaultChunkSize \div 2) |-> c]
LongText ==
    join([k \in 1..(batch_size + 1) |->
            LongWord(IF k % 2 = 1 THEN "a" ELSE "b")])
LongFiles == {[content_type |-> "text/plain", extracted |-> LongText]}

\* line 353, chunk_document_text(extracted_data) with the default chunk
\* size, tabulated for the uploads tried.
ChunksOfUpload ==
    [t \in {f.extracted : f \in Files \cup LongFiles} |->
        chunk_document_text(t, DefaultChunkSize)]

\* add_document, lines 318-375: validation, extraction, chunking and the
\* commit of the Documents row, for an upload drawn from files.
AddDocumentFrom(u, api_key, files) ==
    /\ upload = Idle
    /\ next_document_id <= MaxDocIds
    /\ LET api_entry == OwnedApi(api_key, u)
           Reject(status, detail) ==
               /\ response' = Reply("add_document", status, detail)
               /\ UNCHANGED <<documents, next_document_id, upload, doc_chunks>>
       IN  IF api_entry = <<>>
           THEN Reject(404, "API key not found")
           ELSE \E file \in files :
           LET chunks_ == ChunksOfUpload[file.extracted]
           IN
           IF file.content_type \notin AllowedTypes
           THEN Reject(400, "Unsupported file type. Allowed types are: PDF, DOCX, TXT")
           ELSE IF file.extracted = <<>>
           THEN Reject(400, "Failed to extract data from the file")
           ELSE IF chunks_ = <<>>
           THEN Reject(400, "No valid content found in the document")
           ELSE /\ documents' = Append(documents,
                      [document_id |-> next_document_id,
                       api_id |-> api_entry[1].id,
                       chunk_text |-> None])
                /\ next_document_id' = next_document_id + 1
                /\ upload' = [pc |-> "embedding", api_key |-> api_key,
                              document_id |-> next_document_id,
                              chunks |-> chunks_, i |-> 0]
                /\ doc_chunks' = Append(doc_chunks, Len(chunks_))
                /\ response' = NoResponse
    /\ UNCHANGED <<users, api_list, embeddings, next_api_id,
                   next_embedding_id, next_key>>
    /\ UNCHANGED chunkVars
    /\ UNCHANGED chatVars
    /\ UNCHANGED authVars
    /\ UNCHANGED payVars

AddDocumentBegin(u, api_key) == AddDocumentFrom(u, api_key, Files)

AddLongDocumentBegin(u, api_key) == AddDocumentFrom(u, api_key, LongFiles)

\* embeddings.document_id is a foreign key to documents.document_id: an
\* Embeddings row can be inserted only while its Documents row exists.
DocumentRowExists_Unchecked(document_id) == TRUE
DocumentRowExists(document_id) ==
    \E k \in 1..Len(documents) : documents[k].document_id = document_id

\* The Embeddings rows of one batch, lines 386-393.
EmbeddingEntries_Misaligned(document_id, batch_chunks, first_id) ==
    [k \in 1..Len(batch_chunks) |->
        [id |-> first_id + k - 1,
         document_id |-> document_id,
         embedding |-> tobytes(encode(batch_chunks[1])),
         chunk_text |-> batch_chunks[k]]]
EmbeddingEntries(document_id, batch_chunks, first_id) ==
    [k \in 1..Len(batch_chunks) |->
        [id |-> first_id + k - 1,
         document_id |-> document_id,
         embedding |-> tobytes(encode(batch_chunks[k])),
         chunk_text |-> batch_chunks[k]]]

\* add_document, lines 380-402: one batch is embedded, saved and
\* committed; after the last batch the handler returns.  The insert needs
\* the Documents row to exist (foreign key embeddings.document_id).
AddDocumentBatch ==
    /\ upload.pc = "embedding"
    /\ DocumentRowExists(upload.document_id)
    /\ LET n == Len(upload.chunks)
           upto == Min2(upload.i + batch_size, n)
           batch_chunks == SubSeq(upload.chunks, upload.i + 1, upto)
           entries == EmbeddingEntries(upload.document_id, batch_chunks,
                                       next_embedding_id)
       IN  /\ embeddings' = embeddings \o entries
           /\ next_embedding_id' = next_embedding_id + Len(entries)
           /\ IF upto >= n
              THEN /\ upload' = Idle
                   /\ response' = [op |-> "add_document", status |-> 200,
                         detail |-> "Document processed and added successfully",
                         chunks_created |-> n,
                         document_id |-> upload.document_id]
              ELSE /\ upload' = [upload EXCEPT !.i = upto]
                   /\ response' = NoResponse
    /\ UNCHANGED <<users, api_list, documents, next_api_id, next_document_id,
                   next_key, doc_chunks>>
    /\ UNCHANGED chunkVars
    /\ UNCHANGED chatVars
    /\ UNCHANGED authVars
    /\ UNCHANGED payVars

\* add_document, lines 383 and 404-411: model.encode raises; the handler
\* deletes the document (with its embeddings) and answers 500.
AddDocumentEncodeFails ==
    /\ upload.pc = "embedding"
    /\ documents' = DocumentsAfterDocumentDelete(upload.document_id)
    /\ embeddings' = EmbeddingsAfterDocumentDelete(upload.document_id)
    /\ upload' = Idle
    /\ response' = [op |-> "add_document", status |-> 500,
                    detail |-> "Failed to process embeddings",
                    document_id |-> upload.document_id]
    /\ UNCHANGED <<users, api_list, next_api_id, next_document_id,
                   next_embedding_id, next_key, doc_chunks>>
    /\ UNCHANGED chunkVars
    /\ UNCHANGED chatVars
    /\ UNCHANGED authVars
    /\ UNCHANGED payVars

\* add_document, lines 394-395, 404-407 and 415-420: bulk_save_objects or
\* the commit raises; the session's transaction is then rolled back and
\* inactive, so the handler's own db.delete / db.commit raise as well and
\* the outer handler answers 500.  Nothing committed before is undone.
AddDocumentPersistFails ==
    /\ upload.pc = "embedding"
    /\ upload' = Idle
    /\ response' = [op |-> "add_document", status |-> 500,
                    detail |-> "Failed to process and add document",
                    document_id |-> upload.document_id]
    /\ UNCHANGED <<doc_chunks>>
    /\ UNCHANGED dbVars
    /\ UNCHANGED chunkVars
    /\ UNCHANGED chatVars
    /\ UNCHANGED authVars
    /\ UNCHANGED payVars

\* delete_api_key
DeleteApiKey(u, api_key) ==
    /\ LET api_entry == OwnedApi(api_key, u)
       IN  IF api_entry = <<>>
           THEN /\ response' = Reply("delete_api_key", 404, "API key not found")
                /\ UNCHANGED <<api_list, documents, embeddings>>
           ELSE /\ api_list' = SelectSeq(api_list,
                                   LAMBDA a : a.id # api_entry[1].id)
                /\ documents' = DocumentsAfterApiDelete(api_entry[1].id)
                /\ embeddings' = EmbeddingsAfterApiDelete(api_entry[1].id)
                /\ response' = [op |-> "delete_api_key", status |-> 200,
                                detail |-> "API key deleted successfully",
                                api_id |-> api_entry[1].id,
                                documents_deleted |->
                                    Len(DocumentsOfApi(api_entry[1].id)),
                                embeddings_deleted |-> Len(embeddings)
                                    - Len(EmbeddingsAfterApiDelete(api_entry[1].id))]
    /\ UNCHANGED <<users, next_api_id, next_document_id, next_embedding_id,
                   next_key, upload, doc_chunks>>
    /\ UNCHANGED chunkVars
    /\ UNCHANGED chatVars
    /\ UNCHANGED authVars
    /\ UNCHANGED payVars

\* regenerate_api_key, with at most max_keys keys ever issued
RegenerateApiKeyWithin(u, api_key, max_keys) ==
    /\ next_key <= max_keys
    /\ LET api_key_entry == OwnedApi(api_key, u)
       IN  IF api_key_entry = <<>>
           THEN /\ response' = Reply("regenerate_api_key", 404, "API key not found")
                /\ UNCHANGED <<api_list, next_key>>
           ELSE /\ api_list' = [k \in 1..Len(api_list) |->
                                  IF api_list[k].id = api_key_entry[1].id
                                  THEN [api_list[k] EXCEPT !.api_key = next_key]
                                  ELSE api_list[k]]
                /\ next_key' = next_key + 1
                /\ response' = Reply("regenerate_api_key", 200,
                                     "API key secret key regenerated")
    /\ UNCHANGED <<users, documents, embeddings, next_api_id,
                   next_document_id, next_embedding_id, upload, doc_chunks>>
    /\ UNCHANGED chunkVars
    /\ UNCHANGED chatVars
    /\ UNCHANGED authVars
    /\ UNCHANGED payVars

\* regenerate_api_key
RegenerateApiKey(u, api_key) == RegenerateApiKeyWithin(u, api_key, MaxKeys)

\* The rows of apis with the row of the given id replaced.
WithApiEntry(apis, id, row) ==
    [k \in 1..Len(apis) |-> IF apis[k].id = id THEN row ELSE apis[k]]

\* get_api_key_info: the 404 is raised inside the try block, whose only
\* handler is "except Exception", and HTTPException is an Exception.
GetApiKeyInfo(u, api_key) ==
    /\ LET key == OwnedApi(api_key, u)
       IN  IF key = <<>>
           THEN response' = Reply("get_api_key_info", 500,
                                  "Failed to retrieve API key info")
           ELSE response' = [op |-> "get_api_key_info", status |-> 200,
                             detail |-> "", api_key |-> key[1].api_key]
    /\ UNCHANGED dbVars
    /\ UNCHANGED <<upload, doc_chunks>>
    /\ UNCHANGED chunkVars
    /\ UNCHANGED chatVars
    /\ UNCHANGED authVars
    /\ UNCHANGED payVars

\* The instructions and token limits sent.
InstructionInputs == {"j"}
TokenLimitInputs == {-1, 2}

\* update_api_instructions
UpdateApiInstructions(u, api_key, instructions) ==
    /\ LET api_entry == OwnedApi(api_key, u)
       IN  IF api_entry = <<>>
           THEN /\ response' = Reply("update_api_instructions", 404,
                                     "API key not found")
                /\ UNCHANGED api_list
           ELSE /\ api_list' = WithApiEntry(api_list, api_entry[1].id,
                      [api_entry[1] EXCEPT !.instructions = instructions])
                /\ response' = Reply("update_api_instructions", 200,
                                     "Instructions updated successfully")
    /\ UNCHANGED <<users, documents, embeddings, next_api_id,
                   next_document_id, next_embedding_id, next_key,
                   upload, doc_chunks>>
    /\ UNCHANGED chunkVars
    /\ UNCHANGED chatVars
    /\ UNCHANGED authVars
    /\ UNCHANGED payVars

\* update_token_limit
UpdateTokenLimit(u, api_key, token_limit) ==
    /\ LET api_entry == OwnedApi(api_key, u)
       IN  IF api_entry = <<>>
           THEN /\ response' = Reply("update_token_limit", 404,
                                     "API key not found")
                /\ UNCHANGED api_list
           ELSE IF token_limit < api_entry[1].tokens_used
           THEN /\ response' = Reply("update_token_limit", 400,
                      "New token limit cannot be less than tokens already used")
                /\ UNCHANGED api_list
           ELSE /\ api_list' = WithApiEntry(api_list, api_entry[1].id,
                      [api_entry[1] EXCEPT
                          !.token_limit_per_day = token_limit,
                          !.tokens_remaining =
                              token_limit - api_entry[1].tokens_used])
                /\ response' = Reply("update_token_limit", 200,
                                     "Token limit updated successfully")
    /\ UNCHANGED <<users, documents, embeddings, next_api_id,
                   next_document_id, next_embedding_id, next_key,
                   upload, doc_chunks>>
    /\ UNCHANGED chunkVars
    /\ UNCHANGED chatVars
    /\ UNCHANGED authVars
    /\ UNCHANGED payVars

\* getAllDocumentsOfAPI
GetAllDocumentsOfAPI(u, api_key) ==
    /\ LET api_entry == OwnedApi(api_key, u)
       IN  IF api_entry = <<>>
           THEN response' = Reply("get_all_documents", 404,
                                  "API key not found")
           ELSE IF DocumentsOfApi(api_entry[1].id) = <<>>
           THEN response' = Reply("get_all_documents", 404,
                                  "No documents found for this API key")
           ELSE response' = [op |-> "get_all_documents", status |-> 200,
                             detail |-> "",
                             ids |-> [k \in 1..Len(DocumentsOfApi(api_entry[1].id))
                                        |-> DocumentsOfApi(api_entry[1].id)[k].document_id]]
    /\ UNCHANGED dbVars
    /\ UNCHANGED <<upload, doc_chunks>>
    /\ UNCHANGED chunkVars
    /\ UNCHANGED chatVars
    /\ UNCHANGED authVars
    /\ UNCHANGED payVars

\* The document ids tried.
DocumentIdInputs == 1..MaxDocIds

\* deleteDocumentFromAPI; the document id is looked up once the key is
\* known to belong to the caller.
DeleteDocumentFromAPI(u, api_key) ==
    /\ LET api_entry == OwnedApi(api_key, u)
       IN  IF api_entry = <<>>
           THEN /\ response' = Reply("delete_document", 404, "API key not found")
                /\ UNCHANGED <<documents, embeddings>>
           ELSE \E document_id \in DocumentIdInputs :
           LET document == SelectSeq(documents,
                              LAMBDA d : d.document_id = document_id
                                         /\ d.api_id = api_entry[1].id)
           IN
           IF document = <<>>
           THEN /\ response' = Reply("delete_document", 404,
                      "Document not found or does not belong to this API key")
                /\ UNCHANGED <<documents, embeddings>>
           ELSE /\ documents' = DocumentsAfterDocumentDelete(document_id)
                /\ embeddings' = EmbeddingsAfterDocumentDelete(document_id)
                /\ response' = [op |-> "delete_document", status |-> 200,
                                detail |-> "Document deleted successfully",
                                document_id |-> document_id,
                                embeddings_deleted |->
                                    Len(EmbeddingsOfDocument(document_id))]
    /\ UNCHANGED <<users, api_list, next_api_id, next_document_id,
                   next_embedding_id, next_key, upload, doc_chunks>>
    /\ UNCHANGED chunkVars
    /\ UNCHANGED chatVars
    /\ UNCHANGED authVars
    /\ UNCHANGED payVars

(***************************************************************************)
(* routers/ask.py                                                          *)
(***************************************************************************)
top_k == 3

\* np.random.rand, line 73: the coordinates a query vector is drawn from.
QueryCoords == {0, 1}

\* line 58: the value Embeddings.document_id is compared with.
EmbeddingKey(document) == document.api_id

\* Is the stored buffer readable as float32 values? (np.frombuffer)
BufferOk(bytes) == Len(bytes) % 4 = 0

\* lines 57-59: the first Embeddings row found for each document, if any.
RECURSIVE EmbeddingEntries_(_)
EmbeddingEntries_(docs) ==
    IF docs = <<>> THEN <<>>
    ELSE LET document == docs[1]
             found == SelectSeq(embeddings,
                        LAMBDA e : e.document_id = EmbeddingKey(document))
         IN  (IF found # <<>>
              THEN << [document_id |-> document.document_id,
                       embedding |-> found[1].embedding] >>
              ELSE <<>>) \o EmbeddingEntries_(Tail(docs))

\* index.search(question_embedding, k) of an IndexFlatL2 over vecs, whose
\* ids are 0 .. Len(vecs)-1: the ids of the k nearest vectors by ascending
\* distance, padded with -1.  The order of equally distant vectors is not
\* fixed by the index, so every such answer is possible.
IndexSearch(vecs, q, k) ==
    LET n == Len(vecs)
        m == Min2(k, n)
        dist(i) == L2(vecs[i + 1], q)
    IN  {I \in [1..k -> -1..(n - 1)] :
            /\ \A j \in 1..m : I[j] # -1
            /\ \A j \in (m + 1)..k : I[j] = -1
            /\ \A j1, j2 \in 1..m :
                  j1 < j2 => I[j1] # I[j2] /\ dist(I[j1]) <= dist(I[j2])
            /\ \A i \in 0..(n - 1) :
                  (\A j \in 1..m : I[j] # i) => dist(I[m]) <= dist(i)}

\* lines 82-84: the document id mapped to a FAISS id; 0 stands for the
\* None of id_map.get and for a skipped id.
DocIdAt_Wrap(idx, id_map) ==
    IF idx = -1 THEN id_map[Len(id_map)] ELSE id_map[idx + 1]
DocIdAt(idx, id_map) ==
    IF idx # -1 /\ (idx + 1) \in DOMAIN id_map THEN id_map[idx + 1] ELSE 0

\* lines 80-87: the documents of the search result, in result order.
RECURSIVE MostSimilarDocuments(_, _)
MostSimilarDocuments(I, id_map) ==
    IF I = <<>> THEN <<>>
    ELSE LET most_similar_doc_id == DocIdAt(I[1], id_map)
             found == SelectSeq(documents,
                        LAMBDA d : d.document_id = most_similar_doc_id)
         IN  (IF most_similar_doc_id # 0 /\ found # <<>>
              THEN <<found[1]>> ELSE <<>>)
             \o MostSimilarDocuments(Tail(I), id_map)

\* lines 93-95: the chunk_text of each retrieved document, in order.
PromptContext_Distinct(most_similar_documents) ==
    LET texts == MapSeq(most_similar_documents, LAMBDA d : d.chunk_text)
        keep == {k \in 1..Len(texts) :
                    \A j \in 1..(k - 1) : texts[j] # texts[k]}
    IN  [n \in 1..Cardinality(keep) |-> texts[Kth(keep, n)]]
PromptContext(most_similar_documents) ==
    MapSeq(most_similar_documents, LAMBDA d : d.chunk_text)

\* line 52
NoDocuments_Never(docs) == FALSE
NoDocuments(docs) == docs = <<>>

\* lines 47-48: the error raised for an unknown key
InvalidKey_NotFound == [status |-> 404, detail |-> "API key not found"]
InvalidKey == [status |-> 403, detail |-> "Invalid or expired API key."]

\* The response of ask_question together with what the handler computed:
\* the tenant's documents, the indexed pairs, the query vector and the
\* retrieved documents (most_similar_documents).
AskReply(api_key, question, status, detail, context, docs, indexed, q, ranked) ==
    [op |-> "ask", api_key |-> api_key, question |-> question,
     status |-> status, detail |-> detail, context |-> context,
     documents |-> docs, indexed |-> indexed,
     question_embedding |-> q, most_similar_documents |-> ranked]

\* The questions asked.
Questions == {<<"a">>, <<"b">>}
AnyQuestion == <<"a">>

\* ask_question; the handler only reads the database, and passes the
\* question to the generator only.
Ask(api_key, question) ==
    /\ LET api_entry == get_by_api_key(api_key)
           docs == IF api_entry = <<>> THEN <<>>
                   ELSE DocumentsOfApi(api_entry[1].id)
           entries == EmbeddingEntries_(docs)
           Fail(status, detail) ==
               response' = AskReply(api_key, question, status, detail,
                                    <<>>, docs, entries, <<>>, <<>>)
       IN  IF api_entry = <<>>
           THEN Fail(InvalidKey.status, InvalidKey.detail)
           ELSE IF NoDocuments(docs)
           THEN Fail(404, "No documents found for the given API key.")
           ELSE IF \E k \in 1..Len(entries) : ~BufferOk(entries[k].embedding)
           THEN \* ValueError of np.frombuffer, line 60, not handled
                Fail(500, "Internal Server Error")
           ELSE IF entries = <<>>
           THEN Fail(404, "No embeddings found for the associated documents.")
           ELSE LET vecs == MapSeq(entries,
                              LAMBDA e : frombuffer(e.embedding))
                    id_map == MapSeq(entries, LAMBDA e : e.document_id)
                    dimension == Len(vecs[1])
                IN  IF \E k \in 1..Len(vecs) : Len(vecs[k]) # dimension
                    THEN \* index.add rejects the vector, line 23; the
                         \* error is no ValueError and is not handled
                         Fail(500, "Internal Server Error")
                    ELSE \E q \in [1..dimension -> QueryCoords] :
                         \E I \in IndexSearch(vecs, q, top_k) :
                            LET ranked == MostSimilarDocuments(I, id_map)
                                prompt_context == PromptContext(ranked)
                            IN  IF ranked = <<>>
                                THEN response' = AskReply(api_key,
                                        question, 500,
                                        "Could not retrieve the most similar document.",
                                        <<>>, docs, entries, q, ranked)
                                ELSE response' = AskReply(api_key,
                                        question, 200, "",
                                        prompt_context, docs, entries,
                                        q, ranked)
    /\ UNCHANGED <<upload, doc_chunks>>
    /\ UNCHANGED dbVars
    /\ UNCHANGED chunkVars
    /\ UNCHANGED chatVars
    /\ UNCHANGED authVars
    /\ UNCHANGED payVars

(***************************************************************************)
(* routers/chat.py                                                         *)
(***************************************************************************)
\* The question of the chat turn.
Question == <<"q">>

\* The fragments generate_response_streaming can yield: content, reasoning
\* and token-usage metadata with or without the token counts.
Fragments ==
    {[type |-> "content", data |-> <<"x">>],
     [type |-> "reasoning", data |-> <<"r">>],
     [type |-> "metadata",
      data |-> [prompt_tokens |-> 1, completion_tokens |-> 1]],
     [type |-> "metadata", data |-> [total_tokens |-> 2]]}

NoChunk == [type |-> "none"]

\* upload_document: nothing, a text file, or a file the parser raises on.
Uploads == {"none", "text", "unreadable"}

\* line 186-187, 223 and 227: the messages logged as answers
ErrorDuringStreamingMsg == <<"Error during response generation stream">>
DisconnectedNoContent ==
    <<"Response generation was in progress when client disconnected; no primary content was generated.">>
NoContent == <<"No content was generated by the model.">>

\* utilities/count_tokens.count_tokens(text, provider, model) applied to
\* the positional arguments args: a call with another number of arguments
\* raises TypeError.
count_tokens(args) ==
    IF Len(args) # 3 THEN [raised |-> "TypeError"]
    ELSE [value |-> Len(args[1])]

Raised(result) == "raised" \in DOMAIN result

\* hasattr(current_user, 'id') for the dict that get_current_user returns
CurrentUserHasAttrId == FALSE

InitChat ==
    /\ chat = [pc |-> "idle", web_search |-> FALSE,
               upload_document |-> "none",
               document_data_list |-> <<>>, generated |-> <<>>,
               chunk |-> NoChunk, full_answer |-> <<>>,
               input_tokens |-> 0, output_tokens |-> 0,
               client_disconnected_during_streaming |-> FALSE,
               error_during_streaming_msg |-> None,
               yields |-> 0, yields_when_observed |-> 0,
               status_code |-> 0]
    /\ client = [connected |-> TRUE, received |-> <<>>]
    /\ background_tasks = <<>>

\* The variables the chat endpoint leaves alone.
UnchangedByChat ==
    /\ UNCHANGED dbVars
    /\ UNCHANGED reqVars
    /\ UNCHANGED chunkVars
    /\ UNCHANGED authVars
    /\ UNCHANGED payVars

\* request.is_disconnected() polled while the flag is not yet set: the
\* handler's record after the poll.
Polled(c) ==
    IF ~c.client_disconnected_during_streaming /\ ~client.connected
    THEN [c EXCEPT !.client_disconnected_during_streaming = TRUE,
                   !.yields_when_observed = c.yields]
    ELSE c

\* chat, lines 112-131 and 252-281: the request setup.  The parser raises
\* on an unreadable file and semantic_search raises on the extracted text
\* (it reads doc.chunk_text); the setup error is logged only when
\* current_user has an attribute id, and answered with HTTP 500.
ChatSetup(web_search, upload_document, document_semantic_search) ==
    /\ chat.pc = "idle"
    /\ LET document_data_list ==
               IF upload_document = "text" THEN <<"document text">>
               ELSE <<>>
           fails == \/ upload_document = "unreadable"
                    \/ upload_document # "none" /\ document_semantic_search
       IN  IF fails
           THEN /\ chat' = [chat EXCEPT !.pc = "done",
                               !.web_search = web_search,
                               !.upload_document = upload_document,
                               !.document_data_list = document_data_list,
                               !.status_code = 500]
                /\ background_tasks' =
                      IF CurrentUserHasAttrId
                      THEN Append(background_tasks,
                             [document_list |->
                                 IF document_data_list # <<>>
                                 THEN document_data_list ELSE None,
                              image_list |-> None,
                              answer |-> <<"Critical error processing request setup">>,
                              input_tokens |-> 0, output_tokens |-> 0,
                              status_code |-> 500])
                      ELSE background_tasks
           ELSE /\ chat' = [chat EXCEPT !.pc = "streaming",
                               !.web_search = web_search,
                               !.upload_document = upload_document,
                               !.document_data_list = document_data_list,
                               !.status_code = 200]
                /\ UNCHANGED background_tasks
    /\ UNCHANGED client
    /\ UnchangedByChat

\* stream_response, lines 134-145: the two web_search fragments
StreamBegin ==
    /\ chat.pc = "streaming"
    /\ LET sent == IF chat.web_search
                   THEN <<[type |-> "web_search", data |-> "searching..."],
                          [type |-> "web_search", data |-> "results"]>>
                   ELSE <<>>
       IN  /\ chat' = [chat EXCEPT !.pc = "loop",
                                   !.yields = chat.yields + Len(sent)]
           /\ client' = [client EXCEPT !.received = client.received \o sent]
    /\ UNCHANGED background_tasks
    /\ UnchangedByChat

\* lines 147-158: the generator yields a fragment and the handler polls
\* the connection.
GeneratorYields(fragment) ==
    /\ chat.pc = "loop"
    /\ Len(chat.generated) < MaxFragments
    /\ chat' = [Polled(chat) EXCEPT !.pc = "chunk",
                   !.generated = Append(chat.generated, fragment),
                   !.chunk = fragment]
    /\ UNCHANGED <<client, background_tasks>>
    /\ UnchangedByChat

\* lines 164-184: token counts of a metadata fragment are summed, the data
\* of any other fragment is appended to the answer; the fragment is
\* yielded unless the client is, or is now found, disconnected.
HandleChunk ==
    /\ chat.pc = "chunk"
    /\ LET chunk == chat.chunk
           c1 == IF chunk.type = "metadata"
                 THEN [chat EXCEPT
                        !.input_tokens = @ +
                            (IF "prompt_tokens" \in DOMAIN chunk.data
                             THEN chunk.data.prompt_tokens ELSE 0),
                        !.output_tokens = @ +
                            (IF "completion_tokens" \in DOMAIN chunk.data
                             THEN chunk.data.completion_tokens ELSE 0)]
                 ELSE [chat EXCEPT !.full_answer = @ \o chunk.data]
           c2 == Polled(c1)
           yielded == ~c2.client_disconnected_during_streaming
       IN  /\ chat' = [c2 EXCEPT !.pc = "loop", !.chunk = NoChunk,
                          !.yields = IF yielded THEN @ + 1 ELSE @]
           /\ client' = IF yielded
                        THEN [client EXCEPT !.received = Append(@, chunk)]
                        ELSE client
    /\ UNCHANGED background_tasks
    /\ UnchangedByChat

\* generate_response_streaming, lines 93-97, and chat lines 155-164: on an
\* error the generator yields a tuple; the handler polls the connection
\* and subscripting the tuple raises.
GeneratorRaises ==
    /\ chat.pc = "loop"
    /\ chat' = [Polled(chat) EXCEPT !.pc = "except"]
    /\ UNCHANGED <<client, background_tasks>>
    /\ UnchangedByChat

\* lines 186-209: the error message becomes the answer when there is none;
\* when the client is still connected the handler evaluates str(e), e being
\* unbound in the enclosing chat, and the NameError raised is caught at
\* line 206, which sets the flag: no error fragment is ever yielded.
StreamExcept ==
    /\ chat.pc = "except"
    /\ chat' = [chat EXCEPT !.pc = "finally",
                  !.error_during_streaming_msg = ErrorDuringStreamingMsg,
                  !.full_answer = IF @ = <<>> THEN ErrorDuringStreamingMsg
                                  ELSE @,
                  !.client_disconnected_during_streaming = TRUE,
                  !.yields_when_observed =
                      IF chat.client_disconnected_during_streaming THEN @
                      ELSE chat.yields]
    /\ UNCHANGED <<client, background_tasks>>
    /\ UnchangedByChat

\* line 147: the generator is exhausted
GeneratorEnds ==
    /\ chat.pc = "loop"
    /\ chat' = [chat EXCEPT !.pc = "finally"]
    /\ UNCHANGED <<client, background_tasks>>
    /\ UnchangedByChat

\* lines 215-228: the status code and the answer to log
FinalStatus_DisconnectFirst(c) ==
    IF c.error_during_streaming_msg # None
    THEN [status_code |-> 500, answer |-> c.error_during_streaming_msg]
    ELSE IF c.client_disconnected_during_streaming
    THEN [status_code |-> 503, answer |-> DisconnectedNoContent]
    ELSE IF c.full_answer # <<>>
    THEN [status_code |-> 200, answer |-> c.full_answer]
    ELSE [status_code |-> 204, answer |-> NoContent]
FinalStatus(c) ==
    IF c.error_during_streaming_msg # None
    THEN [status_code |-> 500, answer |-> c.error_during_streaming_msg]
    ELSE IF c.client_disconnected_during_streaming
    THEN IF c.full_answer # <<>>
         THEN [status_code |-> 200, answer |-> c.full_answer]
         ELSE [status_code |-> 503, answer |-> DisconnectedNoContent]
    ELSE IF c.full_answer # <<>>
    THEN [status_code |-> 200, answer |-> c.full_answer]
    ELSE [status_code |-> 204, answer |-> NoContent]

\* lines 211-250: the record is scheduled, unless evaluating an argument
\* of add_task raises.
StreamFinally ==
    /\ chat.pc = "finally"
    /\ LET final == FinalStatus(chat)
           input_counted == count_tokens(<<Question>>)
           output_counted == count_tokens(<<chat.full_answer>>)
           input_fallback == chat.input_tokens = 0
           output_fallback ==
               final.status_code = 200 /\ chat.output_tokens = 0
       IN  /\ chat' = [chat EXCEPT !.pc = "done"]
           /\ IF \/ input_fallback /\ Raised(input_counted)
                 \/ output_fallback /\ Raised(output_counted)
              THEN UNCHANGED background_tasks
              ELSE background_tasks' = Append(background_tasks,
                     [document_list |->
                         IF chat.document_data_list # <<>>
                         THEN chat.document_data_list ELSE None,
                      image_list |-> None,
                      answer |-> final.answer,
                      input_tokens |->
                         IF input_fallback THEN input_counted.value
                         ELSE chat.input_tokens,
                      output_tokens |->
                         IF output_fallback THEN output_counted.value + 300
                         ELSE chat.output_tokens,
                      status_code |-> final.status_code])
    /\ UNCHANGED client
    /\ UnchangedByChat

\* The client goes away while the answer is being streamed.
ClientDisconnects ==
    /\ chat.pc \in {"loop", "chunk", "except"}
    /\ client.connected
    /\ client' = [client EXCEPT !.connected = FALSE]
    /\ UNCHANGED <<chat, background_tasks>>
    /\ UnchangedByChat

NextChat ==
    \/ \E web_search \in BOOLEAN, upload_document \in Uploads,
          document_semantic_search \in BOOLEAN :
          ChatSetup(web_search, upload_document, document_semantic_search)
    \/ StreamBegin
    \/ \E fragment \in Fragments : GeneratorYields(fragment)
    \/ HandleChunk
    \/ GeneratorRaises
    \/ StreamExcept
    \/ GeneratorEnds
    \/ StreamFinally
    \/ ClientDisconnects

(***************************************************************************)
(* The system: requests of any user in any order; add_document can be      *)
(* overtaken between its commits.                                          *)
(***************************************************************************)
\* The accounts: the first user has verified the account, the others have
\* registered only.
InitialUsers == [u \in Users |-> [is_verified |-> u = 1]]

InitDb ==
    /\ api_list = <<>>
    /\ documents = <<>>
    /\ embeddings = <<>>
    /\ next_api_id = 1
    /\ next_document_id = 1
    /\ next_embedding_id = 1
    /\ next_key = 1
    /\ upload = Idle
    /\ response = NoResponse
    /\ doc_chunks = <<>>

(***************************************************************************)
(* routers/auth.py                                                         *)
(***************************************************************************)
\* The environment's settings (read with os.getenv at import).
OTP_EXPIRY_MINUTES == 2
MAX_OTP_ATTEMPTS == 3
ACCESS_TOKEN_EXPIRE_MINUTES == 30

Emails == {"e1", "e2"}
Usernames == {"n1", "n2"}

\* Passwords, as their characters.
StrongPassword == <<"P", "a", "s", "s", "w", "0", "r", "d", "!">>
OtherPassword == <<"P", "a", "s", "s", "w", "1", "r", "d", "!">>
WeakPassword == <<"p", "a", "s", "s", "w", "o", "r", "d", "1", "2", "3">>
Passwords == {StrongPassword, OtherPassword, WeakPassword}

PasswordLetters == {"P", "a", "s", "w", "r", "d", "p", "o"}
PasswordDigits == {"0", "1", "2", "3"}
PasswordSpecials == {"@", "$", "!", "%", "*", "#", "?", "&"}

\* PASSWORD_REGEX: a letter, a digit and a special character, at least
\* eight characters, all of them letters, digits or special characters.
validate_password(password) ==
    /\ \E k \in 1..Len(password) : password[k] \in PasswordLetters
    /\ \E k \in 1..Len(password) : password[k] \in PasswordDigits
    /\ \E k \in 1..Len(password) : password[k] \in PasswordSpecials
    /\ Len(password) >= 8
    /\ \A k \in 1..Len(password) :
          password[k] \in PasswordLetters \cup PasswordDigits
                          \cup PasswordSpecials

\* models/user.py: the hash keeps the password it was made of apart from
\* the password itself, and verifies only that password.
get_password_hash(password) == [bcrypt |-> password]
verify_password(hashed_password, plain_password) ==
    hashed_password.bcrypt = plain_password

\* db.query(User).filter(User.email == email)
UsersWithEmail(email) == SelectSeq(user_table, LAMBDA r : r.email = email)

\* Query.first() has no ORDER BY: any of the selected rows, as a sequence
\* of one row, or the empty sequence for None.
First(rows) ==
    IF rows = <<>> THEN {<<>>} ELSE {<<rows[k]>> : k \in 1..Len(rows)}

\* The users table with the row of the given id replaced.
WithUser(id, row) ==
    [k \in 1..Len(user_table) |->
        IF user_table[k].id = id THEN row ELSE user_table[k]]

\* What no handler of routers/auth.py changes unless it says so.
UnchangedByAuth ==
    /\ UNCHANGED dbVars
    /\ UNCHANGED <<upload, doc_chunks>>
    /\ UNCHANGED chunkVars
    /\ UNCHANGED chatVars
    /\ UNCHANGED payVars

\* register
Register(username, email, password) ==
    /\ IF ~validate_password(password)
       THEN /\ response' = Reply("register", 400,
                  "Password must be at least 8 characters long and contain letters, numbers, and special characters")
            /\ UNCHANGED user_table
       ELSE \E existing_user \in First(SelectSeq(user_table,
                   LAMBDA r : r.email = email \/ r.username = username)) :
            IF existing_user # <<>>
            THEN /\ response' = Reply("register", 400,
                       IF existing_user[1].email = email
                       THEN "Email already registered"
                       ELSE "Username already registered")
                 /\ UNCHANGED user_table
            ELSE /\ user_table' = Append(user_table,
                       [id |-> Len(user_table) + 1,
                        username |-> username,
                        email |-> email,
                        hashed_password |-> get_password_hash(password),
                        is_verified |-> FALSE])
                 /\ response' = [op |-> "register", status |-> 200,
                                 detail |-> "",
                                 id |-> Len(user_table) + 1,
                                 username |-> username,
                                 email |-> email,
                                 is_verified |-> FALSE]
    /\ UNCHANGED <<CURRENT_OTPS, now, issued_by>>
    /\ UnchangedByAuth

\* create_access_token: the claims of the token and its expiry.
create_access_token(data, expires_delta) ==
    [claims |-> data, exp |-> now + expires_delta]

\* login_for_access_token: the status of the answer, for the row found
\* (a sequence of one row, or empty) and the password sent.
LoginStatus_VerifiedUnchecked(user, password) ==
    IF user = <<>> \/ ~verify_password(user[1].hashed_password, password)
    THEN 401
    ELSE 200
LoginStatus(user, password) ==
    IF user = <<>> \/ ~verify_password(user[1].hashed_password, password)
    THEN 401
    ELSE IF ~user[1].is_verified
    THEN 403
    ELSE 200

\* login_for_access_token
LoginForAccessToken(email, password) ==
    /\ \E user \in First(UsersWithEmail(email)) :
         IF LoginStatus(user, password) = 401
         THEN response' = Reply("login", 401, "Incorrect email or password")
         ELSE IF LoginStatus(user, password) = 403
         THEN response' = Reply("login", 403,
                                "Please verify your email first")
         ELSE response' = [op |-> "login", status |-> 200, detail |-> "",
                           access_token |->
                               create_access_token([sub |-> user[1].email],
                                   ACCESS_TOKEN_EXPIRE_MINUTES),
                           token_type |-> "bearer",
                           expires_in |-> ACCESS_TOKEN_EXPIRE_MINUTES * 60]
    /\ UNCHANGED authVars
    /\ UnchangedByAuth

\* generate_OTP: a string of digits, here of two.
OTPs == {<<0, 1>>, <<1, 0>>}

\* The numbers sent as otp to the verify handlers.
OtpInputs == {1, 10}

\* str of a natural number: its digits, without leading zeros.
RECURSIVE Str(_)
Str(n) == IF n < 10 THEN <<n>> ELSE Append(Str(n \div 10), n % 10)

\* await send_email(...): "returned" when the awaited call completes,
\* "raised" when it raises.  send_email of utilities/email_service.py is a
\* plain function that returns None or the exception it caught, and
\* awaiting either raises TypeError: with it the outcome is "raised".
SendOutcomes == {"returned", "raised"}

\* OTPData(otp, expiry), attempts = 0
OTPData(otp, expiry) == [otp |-> otp, expiry |-> expiry, attempts |-> 0]

\* get_otp, the OTP drawn from otps
GetOtpFrom(email, otps) ==
    /\ IF CURRENT_OTPS[email] # <<>> /\ now < CURRENT_OTPS[email][1].expiry
       THEN /\ response' = Reply("get_otp", 429,
                  "Please wait 2 minutes before requesting a new OTP")
            /\ UNCHANGED <<CURRENT_OTPS, issued_by>>
       ELSE \E otp \in otps, outcome \in SendOutcomes :
            IF outcome = "returned"
            THEN /\ CURRENT_OTPS' = [CURRENT_OTPS EXCEPT ![email] =
                       <<OTPData(otp, now + OTP_EXPIRY_MINUTES)>>]
                 /\ issued_by' = [issued_by EXCEPT ![email] = "get_otp"]
                 /\ response' = Reply("get_otp", 200, "OTP sent successfully")
            ELSE /\ response' = Reply("get_otp", 500, "Error sending OTP")
                 /\ UNCHANGED <<CURRENT_OTPS, issued_by>>
    /\ UNCHANGED <<user_table, now>>
    /\ UnchangedByAuth

\* get_otp
GetOtp(email) == GetOtpFrom(email, OTPs)

\* forgot_password, the OTP drawn from otps
ForgotPasswordFrom(email, username, otps) ==
    /\ \E user \in First(SelectSeq(user_table,
              LAMBDA r : r.email = email /\ r.username = username)) :
         IF user = <<>>
         THEN /\ response' = Reply("forgot_password", 404,
                    "No user found with provided email and username")
              /\ UNCHANGED <<CURRENT_OTPS, issued_by>>
         ELSE \E otp \in otps, outcome \in SendOutcomes :
              IF outcome = "returned"
              THEN /\ CURRENT_OTPS' = [CURRENT_OTPS EXCEPT ![email] =
                         <<OTPData(otp, now + OTP_EXPIRY_MINUTES)>>]
                   /\ issued_by' = [issued_by EXCEPT
                                       ![email] = "forgot_password"]
                   /\ response' = Reply("forgot_password", 200,
                                        "OTP sent successfully")
              ELSE /\ response' = Reply("forgot_password", 500,
                                        "Error sending OTP")
                   /\ UNCHANGED <<CURRENT_OTPS, issued_by>>
    /\ UNCHANGED <<user_table, now>>
    /\ UnchangedByAuth

\* forgot_password
ForgotPassword(email, username) == ForgotPasswordFrom(email, username, OTPs)

\* del CURRENT_OTPS[email]
DelOtp(email) ==
    /\ CURRENT_OTPS' = [CURRENT_OTPS EXCEPT ![email] = <<>>]
    /\ issued_by' = [issued_by EXCEPT ![email] = "none"]

\* otp_data.attempts += 1
CountAttempt(email) ==
    /\ CURRENT_OTPS' = [CURRENT_OTPS EXCEPT ![email] =
           <<[CURRENT_OTPS[email][1] EXCEPT !.attempts = @ + 1]>>]
    /\ UNCHANGED issued_by

\* The checks verify_otp and verify_reset_otp make before they look the
\* user up: 0 when they pass, else the detail of the 400 raised.
OtpRefused_AttemptsUnchecked(otp_data) ==
    IF otp_data = <<>> THEN "No OTP found for this email"
    ELSE IF now > otp_data[1].expiry THEN "OTP has expired"
    ELSE ""
OtpRefused(otp_data) ==
    IF otp_data = <<>> THEN "No OTP found for this email"
    ELSE IF now > otp_data[1].expiry THEN "OTP has expired"
    ELSE IF otp_data[1].attempts >= MAX_OTP_ATTEMPTS
    THEN "Maximum OTP attempts exceeded"
    ELSE ""

\* verify_otp
VerifyOtp(email, otp) ==
    /\ LET otp_data == CURRENT_OTPS[email]
       IN  IF OtpRefused(otp_data) # ""
           THEN /\ response' = Reply("verify_otp", 400, OtpRefused(otp_data))
                /\ IF otp_data = <<>>
                   THEN UNCHANGED <<CURRENT_OTPS, issued_by>>
                   ELSE DelOtp(email)
                /\ UNCHANGED user_table
           ELSE \E user \in First(UsersWithEmail(email)) :
                IF user = <<>>
                THEN /\ response' = Reply("verify_otp", 404, "User not found")
                     /\ UNCHANGED <<CURRENT_OTPS, issued_by, user_table>>
                ELSE IF otp_data[1].otp = Str(otp)
                THEN /\ user_table' = WithUser(user[1].id,
                           [user[1] EXCEPT !.is_verified = TRUE])
                     /\ DelOtp(email)
                     /\ response' = [op |-> "verify_otp", status |-> 200,
                                     detail |-> "User verified successfully",
                                     success |-> TRUE]
                ELSE /\ CountAttempt(email)
                     /\ UNCHANGED user_table
                     /\ response' = [op |-> "verify_otp", status |-> 200,
                                     detail |-> "Incorrect OTP",
                                     success |-> FALSE]
    /\ UNCHANGED now
    /\ UnchangedByAuth

\* verify_reset_otp
VerifyResetOtp(email, otp) ==
    /\ LET otp_data == CURRENT_OTPS[email]
       IN  IF OtpRefused(otp_data) # ""
           THEN /\ response' = Reply("verify_reset_otp", 400,
                                     OtpRefused(otp_data))
                /\ IF otp_data = <<>>
                   THEN UNCHANGED <<CURRENT_OTPS, issued_by>>
                   ELSE DelOtp(email)
           ELSE \E user \in First(UsersWithEmail(email)) :
                IF user = <<>>
                THEN /\ response' = Reply("verify_reset_otp", 404,
                                          "User not found")
                     /\ UNCHANGED <<CURRENT_OTPS, issued_by>>
                ELSE IF otp_data[1].otp = Str(otp)
                THEN /\ DelOtp(email)
                     /\ response' = [op |-> "verify_reset_otp",
                                     status |-> 200,
                                     detail |-> "OTP verified successfully",
                                     success |-> TRUE,
                                     reset_token |-> create_access_token(
                                         [sub |-> user[1].email,
                                          purpose |-> "password_reset"], 15)]
                ELSE /\ CountAttempt(email)
                     /\ response' = [op |-> "verify_reset_otp",
                                     status |-> 200,
                                     detail |-> "Incorrect OTP",
                                     success |-> FALSE]
    /\ UNCHANGED <<user_table, now>>
    /\ UnchangedByAuth

\* datetime.now(timezone.utc) moves on by a minute.
Tick ==
    /\ now < MaxTime
    /\ now' = now + 1
    /\ UNCHANGED <<user_table, CURRENT_OTPS, issued_by, response>>
    /\ UnchangedByAuth

InitAuth ==
    /\ user_table = <<>>
    /\ CURRENT_OTPS = [e \in Emails |-> <<>>]
    /\ now = 0
    /\ issued_by = [e \in Emails |-> "none"]

(***************************************************************************)
(* routers/payment_gateway.py                                              *)
(***************************************************************************)
\* The amounts asked for, in dollars.
Amounts == {5}

\* What no handler of routers/payment_gateway.py changes.
UnchangedByPay ==
    /\ UNCHANGED dbVars
    /\ UNCHANGED <<upload, doc_chunks>>
    /\ UNCHANGED chunkVars
    /\ UNCHANGED chatVars
    /\ UNCHANGED authVars

\* stripe.checkout.Session.create: it returns a session or raises.
CreateOutcomes == {"created", "raised"}

\* create_checkout_session: the HTTPException raised for a pending
\* transaction is caught by the handler's own "except HTTPException",
\* which sets the flag to False before it re-raises.
CreateCheckoutSession(u, amount) ==
    /\ Len(sessions) < MaxSessions
    /\ IF pending_transaction[u]
       THEN /\ pending_transaction' = [pending_transaction EXCEPT ![u] = FALSE]
            /\ response' = Reply("create_checkout_session", 400,
                  "You have a pending transaction. Please wait for it to complete.")
            /\ UNCHANGED sessions
       ELSE \E outcome \in CreateOutcomes :
            IF outcome = "created"
            THEN /\ pending_transaction' =
                       [pending_transaction EXCEPT ![u] = TRUE]
                 /\ sessions' = Append(sessions,
                       [id |-> Len(sessions) + 1,
                        user_id |-> u,
                        amount_total |-> amount * 100,
                        status |-> "open"])
                 /\ response' = [op |-> "create_checkout_session",
                                 status |-> 200, detail |-> "",
                                 checkout_url |-> Len(sessions) + 1]
            ELSE /\ pending_transaction' =
                       [pending_transaction EXCEPT ![u] = FALSE]
                 /\ response' = Reply("create_checkout_session", 500,
                                      "Error creating checkout session")
                 /\ UNCHANGED sessions
    /\ UNCHANGED credits
    /\ UnchangedByPay

\* The events the payment provider sends about a session.
EventTypes ==
    {"checkout.session.completed", "checkout.session.expired",
     "payment_intent.created"}

\* The sessions with the session of the given id closed as status.
Closed(id, status) ==
    [k \in 1..Len(sessions) |->
        IF sessions[k].id = id
        THEN [sessions[k] EXCEPT !.status = status]
        ELSE sessions[k]]

\* stripe_webhook for an event of the provider about an open session
StripeWebhook(type, k) ==
    /\ k <= Len(sessions)
    /\ sessions[k].status = "open"
    /\ LET user_id == sessions[k].user_id
           amount == sessions[k].amount_total \div 100
       IN  IF type = "checkout.session.completed"
           THEN /\ credits' = [credits EXCEPT ![user_id] =
                      [total_credits |-> @.total_credits + amount,
                       credits_remaining |-> @.credits_remaining + amount,
                       no_of_transactions |-> @.no_of_transactions + 1,
                       last_transaction |-> now]]
                /\ pending_transaction' =
                      [pending_transaction EXCEPT ![user_id] = FALSE]
                /\ sessions' = Closed(sessions[k].id, "completed")
           ELSE IF type = "checkout.session.expired"
           THEN /\ pending_transaction' =
                      [pending_transaction EXCEPT ![user_id] = FALSE]
                /\ sessions' = Closed(sessions[k].id, "expired")
                /\ UNCHANGED credits
           ELSE UNCHANGED <<pending_transaction, credits, sessions>>
    /\ response' = [op |-> "stripe_webhook", status |-> 200,
                    detail |-> "success", type |-> type]
    /\ UnchangedByPay

\* stripe_webhook for a payload whose signature does not verify
StripeWebhookUnsigned ==
    /\ response' = Reply("stripe_webhook", 400, "Invalid webhook signature")
    /\ UNCHANGED payVars
    /\ UnchangedByPay

InitPay ==
    /\ pending_transaction = [u \in Users |-> FALSE]
    /\ credits = [u \in Users |->
                    [total_credits |-> 0, credits_remaining |-> 0,
                     no_of_transactions |-> 0, last_transaction |-> None]]
    /\ sessions = <<>>

Init ==
    /\ users = InitialUsers
    /\ InitDb
    /\ InitChat
    /\ InitAuth
    /\ InitPay
    /\ text = <<>>
    /\ chunk_size = DefaultChunkSize
    /\ chunks = <<>>
    /\ cpc = "idle"

Next ==
    \/ \E u \in Users : GenerateApi(u)
    \/ \E u \in Users, k \in KeyInputs : AddDocumentBegin(u, k)
    \/ AddDocumentBatch
    \/ AddDocumentEncodeFails
    \/ AddDocumentPersistFails
    \/ \E u \in Users, k \in KeyInputs : DeleteApiKey(u, k)
    \/ \E u \in Users, k \in KeyInputs : DeleteDocumentFromAPI(u, k)
    \/ \E k \in KeyInputs : Ask(k, AnyQuestion)

Spec == Init /\ [][Next]_vars

\* Questions over a growing corpus: keys, uploads and asks.
NextAsk ==
    \/ \E u \in Users : GenerateApi(u)
    \/ \E u \in Users, k \in KeyInputs : AddDocumentBegin(u, k)
    \/ AddDocumentBatch
    \/ \E k \in KeyInputs, question \in Questions : Ask(k, question)

SpecAsk == Init /\ [][NextAsk]_vars

\* One chat turn.
SpecChat == Init /\ [][NextChat]_vars

\* The life of the keys alone: issue, replace, revoke.
NextKeys ==
    \/ \E u \in Users : GenerateApiWithin(u, MaxKeyRows, MaxKeyRows + 1)
    \/ \E u \in Users : GenerateApiFails(u)
    \/ \E u \in Users, k \in 0..(MaxKeyRows + 1) :
          RegenerateApiKeyWithin(u, k, MaxKeyRows + 1)
    \/ \E u \in Users, k \in 0..(MaxKeyRows + 1) : DeleteApiKey(u, k)

SpecKeys == Init /\ [][NextKeys]_vars

\* Every operation of routers/api.py that takes an API key, called by every
\* user with every key.
NextOwner ==
    \/ \E u \in Users : GenerateApi(u)
    \/ \E u \in Users : GenerateApiFails(u)
    \/ \E u \in Users, k \in KeyInputs : GetApiKeyInfo(u, k)
    \/ \E u \in Users, k \in KeyInputs, i \in InstructionInputs :
          UpdateApiInstructions(u, k, i)
    \/ \E u \in Users, k \in KeyInputs, t \in TokenLimitInputs :
          UpdateTokenLimit(u, k, t)
    \/ \E u \in Users, k \in KeyInputs : AddDocumentBegin(u, k)
    \/ AddDocumentBatch
    \/ \E u \in Users, k \in KeyInputs : GetAllDocumentsOfAPI(u, k)
    \/ \E u \in Users, k \in KeyInputs : DeleteDocumentFromAPI(u, k)
    \/ \E u \in Users, k \in KeyInputs : RegenerateApiKey(u, k)
    \/ \E u \in Users, k \in KeyInputs : DeleteApiKey(u, k)

SpecOwner == Init /\ [][NextOwner]_vars

\* Accounts: every registration and login, and the verification of e1.
NextAccounts ==
    \/ \E n \in Usernames, e \in Emails,
          p \in {StrongPassword, WeakPassword} : Register(n, e, p)
    \/ \E e \in Emails, p \in {StrongPassword, OtherPassword} :
          LoginForAccessToken(e, p)
    \/ GetOtpFrom("e1", {<<1, 0>>})
    \/ VerifyOtp("e1", 10)

SpecAccounts == Init /\ [][NextAccounts]_vars

\* One-time passwords: the account of e1 and every OTP request for e1 and
\* e2, as time passes.
NextOtp ==
    \/ Register("n1", "e1", StrongPassword)
    \/ \E e \in Emails : GetOtp(e)
    \/ \E e \in Emails : ForgotPassword(e, "n1")
    \/ \E e \in Emails, o \in OtpInputs : VerifyOtp(e, o)
    \/ \E e \in Emails, o \in OtpInputs : VerifyResetOtp(e, o)
    \/ Tick

SpecOtp == Init /\ [][NextOtp]_vars

\* Payments: checkout sessions of every user and the provider's events.
NextPay ==
    \/ \E u \in Users, a \in Amounts : CreateCheckoutSession(u, a)
    \/ \E t \in EventTypes, k \in 1..MaxSessions : StripeWebhook(t, k)
    \/ StripeWebhookUnsigned
    \/ Tick

SpecPay == Init /\ [][NextPay]_vars

\* Uploads of more than one batch.
NextBatch ==
    \/ \E u \in Users : GenerateApi(u)
    \/ \E u \in Users, k \in KeyInputs : AddLongDocumentBegin(u, k)
    \/ AddDocumentBatch
    \/ AddDocumentEncodeFails
    \/ AddDocumentPersistFails
    \/ \E u \in Users, k \in KeyInputs : DeleteDocumentFromAPI(u, k)

SpecBatch == Init /\ [][NextBatch]_vars

(***************************************************************************)
(* Retrieval (routers/ask.py)                                              *)
(***************************************************************************)
\* The stored embeddings of a document: the vectors of its own rows.
OwnVectors(document_id) ==
    MapSeq(EmbeddingsOfDocument(document_id),
           LAMBDA e : frombuffer(e.embedding))

\* The distances of a document's stored embeddings from q.
OwnDistances(document_id, q) ==
    {L2(OwnVectors(document_id)[k], q) :
        k \in 1..Len(OwnVectors(document_id))}

\* An ask that retrieved documents while no upload is in flight and every
\* document of the tenant has its embeddings.
AskRetrievedAtRest ==
    /\ response.op = "ask"
    /\ response.most_similar_documents # <<>>
    /\ upload = Idle
    /\ \A k \in 1..Len(response.documents) :
          EmbeddingsOfDocument(response.documents[k].document_id) # <<>>

\* C5 as stated: the retrieved chunks are in non-decreasing order of the
\* L2 distance between their own stored embedding and the query embedding,
\* and the first one is at the minimum distance over the tenant's corpus.
C5_RetrievalOrdering_Stated ==
    AskRetrievedAtRest =>
        LET ranked == response.most_similar_documents
            q == response.question_embedding
            Best(d) == CHOOSE x \in OwnDistances(d.document_id, q) :
                          \A y \in OwnDistances(d.document_id, q) : x <= y
        IN  /\ \A k \in 1..(Len(ranked) - 1) :
                  Best(ranked[k]) <= Best(ranked[k + 1])
            /\ \A k \in 1..Len(response.documents) :
                  Best(ranked[1]) <= Best(response.documents[k])

C7_EmptyCorpus ==
    response.op = "ask" =>
        /\ (/\ get_by_api_key(response.api_key) # <<>>
            /\ DocumentsOfApi(get_by_api_key(response.api_key)[1].id) = <<>>)
              => /\ response.status = 404
                 /\ response.detail = "No documents found for the given API key."
        /\ response.status = 200 => response.context # <<>>

C7_Witness ==
    /\ response.op = "ask"
    /\ get_by_api_key(response.api_key) # <<>>
    /\ DocumentsOfApi(get_by_api_key(response.api_key)[1].id) = <<>>
    /\ documents # <<>>

\* C8 as stated: a query with an unknown key fails with a not-found error
\* (404) that differs from the empty-corpus error and is no server error.
C8_UnknownKey_Stated ==
    (response.op = "ask" /\ get_by_api_key(response.api_key) = <<>>) =>
        /\ response.status = 404
        /\ response.detail # "No documents found for the given API key."
        /\ response.status < 500

\* C8 amended: a query with an unknown key fails with 403 "Invalid or
\* expired API key.", which differs in status and detail from the 404 of an
\* existing key with an empty corpus; neither is a server error (5xx).
C8_UnknownKey ==
    response.op = "ask" =>
        /\ get_by_api_key(response.api_key) = <<>>
              => /\ response.status = 403
                 /\ response.detail = "Invalid or expired API key."
        /\ (/\ get_by_api_key(response.api_key) # <<>>
            /\ DocumentsOfApi(get_by_api_key(response.api_key)[1].id) = <<>>)
              => /\ response.status = 404
                 /\ response.detail # "Invalid or expired API key."

\* an unknown key is asked while another key exists
C8_Witness ==
    /\ response.op = "ask"
    /\ get_by_api_key(response.api_key) = <<>>
    /\ api_list # <<>>

(***************************************************************************)
(* The corpus store (routers/api.py)                                       *)
(***************************************************************************)
\* C9: every embedding row references an existing document and every
\* document an existing API key; a deleted document leaves no embedding row
\* and a deleted API key leaves no document.
C9_CascadingDelete ==
    /\ \A k \in 1..Len(embeddings) :
          Exists(documents,
                 LAMBDA d : d.document_id = embeddings[k].document_id)
    /\ \A k \in 1..Len(documents) :
          Exists(api_list, LAMBDA a : a.id = documents[k].api_id)
    /\ (response.op = "delete_document" /\ response.status = 200) =>
          /\ ~Exists(documents,
                     LAMBDA d : d.document_id = response.document_id)
          /\ EmbeddingsOfDocument(response.document_id) = <<>>
    /\ (response.op = "delete_api_key" /\ response.status = 200) =>
          /\ ~Exists(api_list, LAMBDA a : a.id = response.api_id)
          /\ DocumentsOfApi(response.api_id) = <<>>

\* a document with embeddings was deleted while other embeddings remain
C9_Witness ==
    /\ response.op = "delete_document"
    /\ response.status = 200
    /\ response.embeddings_deleted >= 1
    /\ embeddings # <<>>

\* C10 as stated: a failed add_document leaves no Documents row and no
\* embedding row of the upload, and in every committed state each document
\* has as many embedding rows as the chunker produced chunks for it.
C10_AllOrNothing_Stated ==
    /\ (/\ response.op = "add_document"
        /\ response.status = 500) =>
          /\ ~Exists(documents,
                     LAMBDA d : d.document_id = response.document_id)
          /\ EmbeddingsOfDocument(response.document_id) = <<>>
    /\ \A k \in 1..Len(documents) :
          Len(EmbeddingsOfDocument(documents[k].document_id))
              = doc_chunks[documents[k].document_id]

\* The rows of a table that belong to other documents than document_id.
RowsOfOthers(rows, document_id) ==
    SelectSeq(rows, LAMBDA r : r.document_id # document_id)

\* The number of rows of embs that belong to document_id.
CountOf(embs, document_id) ==
    Len(SelectSeq(embs, LAMBDA e : e.document_id = document_id))

\* Has docs a row for document_id?
HasRow(docs, document_id) ==
    \E k \in 1..Len(docs) : docs[k].document_id = document_id

\* C11: however add_document and the deletes interleave, every step that
\* changes a row leaves every embedding row with its document; a document
\* answered to the uploader has as many embedding rows as the
\* chunks_created of the answer, and keeps that number for as long as it
\* exists; a step of add_document changes no row of any other document (so
\* none of another tenant).
C11_InterleavedDelete ==
    [][ /\ (documents' # documents \/ embeddings' # embeddings) =>
              \A k \in 1..Len(embeddings') :
                  HasRow(documents', embeddings'[k].document_id)
        /\ (response'.op = "add_document" /\ response'.status = 200) =>
              /\ HasRow(documents', response'.document_id)
              /\ CountOf(embeddings', response'.document_id)
                    = response'.chunks_created
        /\ (documents' # documents \/ embeddings' # embeddings) =>
              \A k \in 1..Len(documents) :
                  (/\ HasRow(documents', documents[k].document_id)
                   /\ ~(/\ upload.pc = "embedding"
                        /\ upload.document_id = documents[k].document_id))
                      => CountOf(embeddings', documents[k].document_id)
                            = CountOf(embeddings, documents[k].document_id)
        /\ upload' # upload =>
              LET d == IF upload.pc = "embedding" THEN upload.document_id
                       ELSE upload'.document_id
              IN  /\ RowsOfOthers(documents', d) = RowsOfOthers(documents, d)
                  /\ RowsOfOthers(embeddings', d)
                        = RowsOfOthers(embeddings, d)
      ]_vars

\* a delete has removed the document of the upload in flight, while
\* another document keeps its embeddings
C11_Witness ==
    /\ upload.pc = "embedding"
    /\ ~HasRow(documents, upload.document_id)
    /\ response.op \in {"delete_document", "delete_api_key"}
    /\ response.status = 200
    /\ embeddings # <<>>

\* The rows of apis that carry api_key.
RowsOfKey(apis, api_key) ==
    SelectSeq(apis, LAMBDA a : a.api_key = api_key)

\* An answer of ask_question agrees with the rows docs of the tenant
\* api_entry: without documents it is the 404 of line 53 with nothing
\* retrieved, and every retrieved document is one of the tenant's rows.
AskReadsLiveRows(api_entry, docs, answer) ==
    /\ (/\ api_entry # <<>>
         /\ \A k \in 1..Len(docs) : docs[k].api_id # api_entry[1].id)
           => /\ answer.status = 404
              /\ answer.detail = "No documents found for the given API key."
              /\ answer.most_similar_documents = <<>>
              /\ answer.context = <<>>
    /\ \A k \in 1..Len(answer.most_similar_documents) :
          /\ api_entry # <<>>
          /\ answer.most_similar_documents[k].api_id = api_entry[1].id
          /\ HasRow(docs, answer.most_similar_documents[k].document_id)

\* C12: a document that deleteDocumentFromAPI has answered as deleted is
\* gone with its embeddings; an ask with the key of a tenant that has no
\* document left fails with 404 "No documents found for the given API
\* key." and retrieves nothing; and whatever an ask retrieves is a
\* document the tenant has at that time, never a deleted one.
C12_IngestThenDelete ==
    [][ /\ (response'.op = "delete_document" /\ response'.status = 200) =>
              /\ ~HasRow(documents', response'.document_id)
              /\ CountOf(embeddings', response'.document_id) = 0
        /\ response'.op = "ask" =>
              AskReadsLiveRows(RowsOfKey(api_list', response'.api_key),
                               documents', response')
      ]_vars

\* scenario D: the only document ever uploaded was ingested (its one
\* embedding was committed) and then deleted, the key still exists, and an
\* ask with it has failed with 404
C12_Witness ==
    /\ response.op = "ask"
    /\ response.status = 404
    /\ get_by_api_key(response.api_key) # <<>>
    /\ next_document_id = 2
    /\ next_embedding_id = 2
    /\ next_api_id = 2
    /\ documents = <<>>
    /\ embeddings = <<>>
    /\ upload = Idle

\* The embedding rows of one document, in creation order.
RowsOfDocument(embs, document_id) ==
    SelectSeq(embs, LAMBDA e : e.document_id = document_id)

\* C13: when add_document answers 200, the document owns exactly one
\* embedding row per chunk of the chunker (as many as chunks_created), the
\* k-th row in creation order stores the k-th chunk's text and the
\* embedding of that same text, across the batches.
C13_OneRowPerChunk ==
    [][ (/\ upload.pc = "embedding"
         /\ response'.op = "add_document"
         /\ response'.status = 200) =>
            /\ response'.document_id = upload.document_id
            /\ response'.chunks_created = Len(upload.chunks)
            /\ CountOf(embeddings', upload.document_id) = Len(upload.chunks)
            /\ \A k \in 1..Len(upload.chunks) :
                  /\ RowsOfDocument(embeddings', upload.document_id)[k]
                        .chunk_text = upload.chunks[k]
                  /\ frombuffer(
                        RowsOfDocument(embeddings', upload.document_id)[k]
                          .embedding) = encode(upload.chunks[k])
                  /\ k < Len(upload.chunks) =>
                        RowsOfDocument(embeddings', upload.document_id)[k].id
                        < RowsOfDocument(embeddings',
                                         upload.document_id)[k + 1].id
      ]_vars

\* an upload of more chunks than one batch holds has been answered
C13_Witness ==
    /\ response.op = "add_document"
    /\ response.status = 200
    /\ response.chunks_created > batch_size
    /\ CountOf(embeddings, response.document_id) = response.chunks_created

\* C14: as stated, the query vector of a successful ask is the Embedder's
\* output for the question text (so that the ranking depends on the corpus
\* and the question only).
C14_QueryFromQuestion_Stated ==
    (response.op = "ask" /\ response.status = 200) =>
        response.question_embedding = encode(response.question)

\* C15: as stated, a successful ask has ranked every document of the
\* tenant by an embedding stored for that very document: none is left out
\* of the index and none is indexed with another document's embedding.
C15_OwnEmbeddingOrFail_Stated ==
    (response.op = "ask" /\ response.status = 200) =>
        \A k \in 1..Len(response.documents) :
            \E j \in 1..Len(response.indexed) :
                /\ response.indexed[j].document_id
                      = response.documents[k].document_id
                /\ \E n \in 1..Len(embeddings) :
                      /\ embeddings[n].document_id
                            = response.documents[k].document_id
                      /\ embeddings[n].embedding
                            = response.indexed[j].embedding

RECURSIVE ContentOf(_)
ContentOf(fragments) ==
    IF fragments = <<>> THEN <<>>
    ELSE (IF fragments[1].type = "content" THEN fragments[1].data
          ELSE <<>>) \o ContentOf(Tail(fragments))

\* The sum of one token count over the metadata fragments.
RECURSIVE TokensOf(_, _)
TokensOf(fragments, key) ==
    IF fragments = <<>> THEN 0
    ELSE (IF /\ fragments[1].type = "metadata"
             /\ key \in DOMAIN fragments[1].data
          THEN fragments[1].data[key] ELSE 0)
         + TokensOf(Tail(fragments), key)

\* A chat turn whose stream has ended without an error of the generator.
StreamCompleted ==
    /\ chat.pc = "done"
    /\ chat.status_code = 200
    /\ chat.error_during_streaming_msg = None

\* C18: as stated, when the client was found disconnected during the
\* stream, nothing was yielded after that and the record with the full
\* accumulated answer is scheduled all the same.
C18_DisconnectStillLogs_Stated ==
    (StreamCompleted /\ chat.client_disconnected_during_streaming) =>
        /\ chat.yields = chat.yields_when_observed
        /\ Len(background_tasks) = 1
        /\ background_tasks[1].answer = chat.full_answer

\* C19: as stated, a chat turn that is over has scheduled exactly one chat
\* session record, whichever way it ended.
C19_ExactlyOneRecord_Stated ==
    chat.pc = "done" => Len(background_tasks) = 1

\* C20: as stated, a turn that completed without error logs the joined
\* content fragments as the answer, the summed token counts of the
\* metadata fragments, status 200 and no documents or images when none
\* were uploaded.
C20_LoggedTurn_Stated ==
    StreamCompleted =>
        /\ Len(background_tasks) = 1
        /\ background_tasks[1].answer = ContentOf(chat.generated)
        /\ background_tasks[1].input_tokens
              = TokensOf(chat.generated, "prompt_tokens")
        /\ background_tasks[1].output_tokens
              = TokensOf(chat.generated, "completion_tokens")
        /\ background_tasks[1].status_code = 200
        /\ chat.upload_document = "none" =>
              background_tasks[1].document_list = None
        /\ background_tasks[1].image_list = None

(***************************************************************************)
(* The chunker applied to every bounded text and chunk size                *)
(***************************************************************************)
InitChunk ==
    /\ text \in Texts
    /\ chunk_size \in ChunkSizes
    /\ chunks = <<>>
    /\ cpc = "call"
    /\ users = InitialUsers
    /\ InitDb
    /\ InitChat
    /\ InitAuth
    /\ InitPay

ChunkDocumentText ==
    /\ cpc = "call"
    /\ chunks' = chunk_document_text(text, chunk_size)
    /\ cpc' = "done"
    /\ UNCHANGED <<text, chunk_size>>
    /\ UNCHANGED dbVars
    /\ UNCHANGED reqVars
    /\ UNCHANGED chatVars
    /\ UNCHANGED authVars
    /\ UNCHANGED payVars

NextChunk == ChunkDocumentText

SpecChunk == InitChunk /\ [][NextChunk]_vars

\* The words of all chunks, in chunk order.
RECURSIVE ChunkWords(_)
ChunkWords(cs) ==
    IF cs = <<>> THEN <<>> ELSE split(cs[1]) \o ChunkWords(Tail(cs))

\* C1: every chunk is at most chunk_size characters long, unless it
\* consists of one single word that is itself longer than chunk_size.
C1_ChunkSizeBound ==
    cpc = "done" =>
        \A k \in 1..Len(chunks) :
            \/ Len(chunks[k]) <= chunk_size
            \/ /\ Len(split(chunks[k])) = 1
               /\ Len(split(chunks[k])[1]) > chunk_size

\* a run with a one-word chunk over the limit and a chunk exactly at it
C1_Witness ==
    /\ cpc = "done"
    /\ \E k \in 1..Len(chunks) : Len(chunks[k]) > chunk_size
    /\ \E k \in 1..Len(chunks) : Len(chunks[k]) = chunk_size

\* C2: the words of the chunks, concatenated in chunk order, are exactly
\* the whitespace-split words of the input text.
C2_ChunkReconstruction ==
    cpc = "done" => ChunkWords(chunks) = split(text)

\* a run with several chunks, one of them packing two different words
C2_Witness ==
    /\ cpc = "done"
    /\ Len(chunks) >= 2
    /\ \E k \in 1..Len(chunks) :
          /\ Len(split(chunks[k])) >= 2
          /\ split(chunks[k])[1] # split(chunks[k])[2]

\* C3 as stated: "alpha beta gamma delta" with chunk size 10 gives
\* ["alpha beta", "gamma delta"].
C3_ScenarioA_Stated ==
    (cpc = "done" /\ text = ScenarioAText /\ chunk_size = 10) =>
        chunks = << <<"a","l","p","h","a"," ","b","e","t","a">>,
                    <<"g","a","m","m","a"," ","d","e","l","t","a">> >>

\* C3 amended: "alpha beta gamma delta" with chunk size 10 gives the four
\* one-word chunks ["alpha", "beta", "gamma", "delta"], because every word
\* is counted with one separator (6 + 5 > 10).
C3_ScenarioA ==
    (cpc = "done" /\ text = ScenarioAText /\ chunk_size = 10) =>
        chunks = << <<"a","l","p","h","a">>, <<"b","e","t","a">>,
                    <<"g","a","m","m","a">>, <<"d","e","l","t","a">> >>

C3_Witness == cpc = "done" /\ text = ScenarioAText /\ chunk_size = 10

\* C4: the empty string is chunked to the empty list, for any chunk size.
C4_EmptyInput ==
    (cpc = "done" /\ text = <<>>) => chunks = <<>>

C4_Witness == cpc = "done" /\ text = <<>> /\ chunk_size > 1

\* C30: as stated, every chunk the chunker returns holds at least one word.
C30_NoEmptyChunk_Stated ==
    cpc = "done" => \A k \in 1..Len(chunks) : split(chunks[k]) # <<>>

\* C29: the record logged for a turn has status 500 and the error message
\* as answer when the generation raised; otherwise 200 and the answer when
\* any text was accumulated, whether or not the client was found
\* disconnected; otherwise 503 when the client was found disconnected;
\* otherwise 204 and "No content was generated by the model."  It is 200
\* only without error and with a non-empty answer.
C29_StatusCode ==
    (chat.pc = "done" /\ background_tasks # <<>>) =>
        /\ chat.error_during_streaming_msg # None =>
              /\ background_tasks[1].status_code = 500
              /\ background_tasks[1].answer = chat.error_during_streaming_msg
        /\ (chat.error_during_streaming_msg = None
             /\ chat.full_answer # <<>>) =>
              /\ background_tasks[1].status_code = 200
              /\ background_tasks[1].answer = chat.full_answer
        /\ (/\ chat.error_during_streaming_msg = None
             /\ chat.full_answer = <<>>
             /\ chat.client_disconnected_during_streaming) =>
              background_tasks[1].status_code = 503
        /\ (/\ chat.error_during_streaming_msg = None
             /\ chat.full_answer = <<>>
             /\ ~chat.client_disconnected_during_streaming) =>
              /\ background_tasks[1].status_code = 204
              /\ background_tasks[1].answer = NoContent
        /\ background_tasks[1].status_code = 200 =>
              /\ chat.error_during_streaming_msg = None
              /\ chat.full_answer # <<>>

\* a turn logged with 200 although the client was found disconnected
C29_Witness ==
    /\ chat.pc = "done"
    /\ background_tasks # <<>>
    /\ background_tasks[1].status_code = 200
    /\ chat.client_disconnected_during_streaming
    /\ ~client.connected

\* The number of keys a user owns in the table apis.
KeysOwned(apis, u) ==
    Len(SelectSeq(apis, LAMBDA a : a.main_table_user_id = u))

KeyScoped(u, api_key) ==
    \/ GetApiKeyInfo(u, api_key)
    \/ \E i \in InstructionInputs : UpdateApiInstructions(u, api_key, i)
    \/ \E t \in TokenLimitInputs : UpdateTokenLimit(u, api_key, t)
    \/ AddDocumentBegin(u, api_key)
    \/ GetAllDocumentsOfAPI(u, api_key)
    \/ DeleteDocumentFromAPI(u, api_key)
    \/ RegenerateApiKey(u, api_key)
    \/ DeleteApiKey(u, api_key)

\* The document deleted by a delete_document answered with 200 is a
\* document of the key the caller named.
DeletedOwnDocument(u, api_key) ==
    \E d \in 1..Len(documents) :
        /\ documents[d].document_id = response'.document_id
        /\ documents[d].api_id = OwnedApi(api_key, u)[1].id

\* C28: a key-scoped operation called with a key the caller does not own
\* answers 404 and leaves keys, documents and embeddings unchanged; a
\* delete_document with the caller's own key either deletes a document of
\* that key or answers 404 and leaves them unchanged.
C28_OwnedKeyOnly_Stated ==
    [][ \A u \in Users, k \in KeyInputs :
          /\ (OwnedApi(k, u) = <<>> /\ KeyScoped(u, k)) =>
                /\ response'.status = 404
                /\ UNCHANGED <<api_list, documents, embeddings>>
          /\ (OwnedApi(k, u) # <<>> /\ DeleteDocumentFromAPI(u, k)) =>
                \/ response'.status = 200 /\ DeletedOwnDocument(u, k)
                \/ /\ response'.status = 404
                   /\ UNCHANGED <<api_list, documents, embeddings>>
      ]_vars

\* Some row of the table has the email, a password hash that verifies
\* the password, and the given verification flag.
HasAccount(table, email, password, is_verified) ==
    \E k \in 1..Len(table) :
        /\ table[k].email = email
        /\ verify_password(table[k].hashed_password, password)
        /\ table[k].is_verified = is_verified

\* C21: a login is answered with a token exactly when some user has the
\* email, the password verifies and the user is verified, and the token
\* names that email; correct credentials of an unverified user are
\* answered 403 'Please verify your email first'; an unknown email and a
\* wrong password are both answered with the same 401 'Incorrect email or
\* password'.
C21_Login ==
    [][ \A e \in Emails, p \in Passwords :
          LoginForAccessToken(e, p) =>
            /\ response'.status = 200 <=> HasAccount(user_table, e, p, TRUE)
            /\ response'.status = 200 => response'.access_token.claims.sub = e
            /\ HasAccount(user_table, e, p, FALSE) =>
                  response' = Reply("login", 403,
                                    "Please verify your email first")
            /\ (~HasAccount(user_table, e, p, TRUE)
                /\ ~HasAccount(user_table, e, p, FALSE)) =>
                  response' = Reply("login", 401,
                                    "Incorrect email or password")
      ]_vars

\* a token issued to a verified user, while another user is registered
\* and not verified
C21_Witness ==
    /\ response.op = "login"
    /\ response.status = 200
    /\ \E k \in 1..Len(user_table) :
          user_table[k].email = response.access_token.claims.sub
          /\ user_table[k].is_verified
    /\ \E k \in 1..Len(user_table) : ~user_table[k].is_verified

\* Some row of the table has the email / the username.
EmailTaken(table, email) == \E k \in 1..Len(table) : table[k].email = email
UsernameTaken(table, username) ==
    \E k \in 1..Len(table) : table[k].username = username

\* No two rows of the table share an email or a username.
UniqueUsers(table) ==
    \A j, k \in 1..Len(table) :
        j # k => /\ table[j].email # table[k].email
                 /\ table[j].username # table[k].username

\* C22: no two users share an email or a username; a registration (with
\* an acceptable password) whose email is taken is answered 400 'Email
\* already registered', one whose username is taken 400 'Username already
\* registered', both leaving the table unchanged; any other adds one
\* unverified user.
C22_Register_Stated ==
    [][ /\ UniqueUsers(user_table')
        /\ \A n \in Usernames, e \in Emails, p \in Passwords :
             (Register(n, e, p) /\ validate_password(p)) =>
               /\ EmailTaken(user_table, e) =>
                     /\ response' = Reply("register", 400,
                                          "Email already registered")
                     /\ user_table' = user_table
               /\ (~EmailTaken(user_table, e)
                   /\ UsernameTaken(user_table, n)) =>
                     /\ response' = Reply("register", 400,
                                          "Username already registered")
                     /\ user_table' = user_table
               /\ (~EmailTaken(user_table, e)
                   /\ ~UsernameTaken(user_table, n)) =>
                     /\ Len(user_table') = Len(user_table) + 1
                     /\ ~user_table'[Len(user_table')].is_verified
      ]_vars

\* A verification request for the email, at either handler.
Verification(e, o) == VerifyOtp(e, o) \/ VerifyResetOtp(e, o)

\* C23: no stored OTP ever counts more than MAX_OTP_ATTEMPTS incorrect
\* submissions; a submission is compared (answered 'Incorrect OTP' or with
\* success) only below that count, and an incorrect one is counted; at the
\* count, a verification of an unexpired OTP is answered 400 'Maximum OTP
\* attempts exceeded' whatever OTP it carries, and one of an expired OTP
\* 400 'OTP has expired'; both remove the entry.
C23_AttemptLimit ==
    [][ /\ \A e \in Emails :
             CURRENT_OTPS'[e] # <<>> =>
                CURRENT_OTPS'[e][1].attempts <= MAX_OTP_ATTEMPTS
        /\ \A e \in Emails, o \in OtpInputs :
             (Verification(e, o) /\ CURRENT_OTPS[e] # <<>>) =>
               /\ now > CURRENT_OTPS[e][1].expiry =>
                     /\ response'.status = 400
                     /\ response'.detail = "OTP has expired"
                     /\ CURRENT_OTPS'[e] = <<>>
               /\ (now <= CURRENT_OTPS[e][1].expiry
                   /\ CURRENT_OTPS[e][1].attempts = MAX_OTP_ATTEMPTS) =>
                     /\ response'.status = 400
                     /\ response'.detail = "Maximum OTP attempts exceeded"
                     /\ CURRENT_OTPS'[e] = <<>>
               /\ (response'.status = 200
                   /\ response'.detail = "Incorrect OTP") =>
                     /\ CURRENT_OTPS[e][1].attempts < MAX_OTP_ATTEMPTS
                     /\ CURRENT_OTPS[e][1].otp # Str(o)
                     /\ CURRENT_OTPS'[e] =
                           <<[CURRENT_OTPS[e][1] EXCEPT !.attempts = @ + 1]>>
               /\ (response'.status = 200
                   /\ response'.detail # "Incorrect OTP") =>
                     /\ CURRENT_OTPS[e][1].attempts < MAX_OTP_ATTEMPTS
                     /\ CURRENT_OTPS[e][1].otp = Str(o)
      ]_vars

\* a verification refused at the attempt limit: the entry is gone, for a
\* registered email, before the OTP could have expired
C23_Witness ==
    /\ response.op \in {"verify_otp", "verify_reset_otp"}
    /\ response.detail = "Maximum OTP attempts exceeded"
    /\ now < OTP_EXPIRY_MINUTES
    /\ \E e \in Emails : EmailTaken(user_table, e) /\ CURRENT_OTPS[e] = <<>>

OpenSessions(ss, u) ==
    Len(SelectSeq(ss, LAMBDA x : x.user_id = u /\ x.status = "open"))

\* C26: a user has at most one open checkout session; a session is
\* created only for a user without a pending transaction, and sets the
\* flag; a request made while the flag is set is answered 400 and leaves
\* it set; the flag is cleared only by a completed or expired checkout
\* event or by a failed session creation.
C26_OneOpenSession_Stated ==
    [][ \A u \in Users :
          /\ OpenSessions(sessions', u) <= 1
          /\ \A a \in Amounts :
               CreateCheckoutSession(u, a) =>
                 /\ response'.status = 200 =>
                       ~pending_transaction[u] /\ pending_transaction'[u]
                 /\ pending_transaction[u] =>
                       response'.status = 400 /\ pending_transaction'[u]
          /\ (pending_transaction[u] /\ ~pending_transaction'[u]) =>
               \/ /\ response'.op = "stripe_webhook"
                  /\ response'.status = 200
                  /\ response'.type \in {"checkout.session.completed",
                                         "checkout.session.expired"}
               \/ /\ response'.op = "create_checkout_session"
                  /\ response'.status = 500
      ]_vars

====
